---- MODULE Spec2Model ----
(***************************************************************************)
(* Model of the scheduled-post dispatcher                                  *)
(* (supabase/functions/publish-scheduled-posts/index.ts) over the posts,   *)
(* post_content and social_accounts tables of the schema migration.        *)
(*                                                                         *)
(* Every awaited storage call is one step of an invocation.  A storage     *)
(* call either takes effect and returns no error, or has no effect and     *)
(* returns an error object (supabase-js resolves with {data, error}; it    *)
(* does not reject).  Nullable columns are sets: {} is NULL, {v} is v.     *)
(***************************************************************************)
EXTENDS Integers, Sequences, FiniteSets, TLC

\* ---------------------------------------------------------------- bounds
NPosts == 2          \* posts in the table of the small initial states
NBatchPosts == 11    \* posts in the table of the large-batch initial states
MaxRows == 2         \* content rows of one post
NInv == 2            \* dispatcher invocations in one behaviour
MaxTime == 2         \* the clock runs over 1..MaxTime
MaxFaults == 2       \* storage calls that return an error in one behaviour
MaxBatchFaults == 1  \* the same, in the behaviours that start from a large table
MaxFormFaults == 1   \* the same, in the behaviours of the authoring form
MaxFiles == 1        \* files attached to the authoring form
MaxSaves == 1        \* posts the authoring form inserts in one behaviour
MaxOverlapFaults == 1  \* storage errors in the behaviours with overlapping invocations
MaxAccountFaults == 1  \* storage errors in the behaviours with changing accounts
MaxCalls == 3        \* loadPosts calls of the calendar in flight at once
MaxMonth == 2        \* the calendar shows months 0..MaxMonth
MaxCalendarFaults == 1 \* storage errors in the behaviours of the calendar

\* ------------------------------------------------------ program constants
BatchLimit == 10

None == {}
Some(x) == {x}
The(s) == CHOOSE x \in s : TRUE

Min(a, b) == IF a <= b THEN a ELSE b

Statuses == {"draft", "scheduled", "publishing", "published", "failed"}

PlatformOrder == <<"instagram", "facebook", "tiktok", "pinterest">>
Platforms == {PlatformOrder[k] : k \in 1..Len(PlatformOrder)}

Users == {"u1", "u2"}
Invs == 1..NInv

NotConnected == "Compte non connecte"
MsgDone == "Publication terminee"
MsgNone == "Aucun post a publier"

VARIABLES
  clock,            \* wall clock read by new Date()
  posts,            \* table posts: id -> row
  post_content,     \* table post_content: id -> row
  social_accounts,  \* table social_accounts: set of rows
  variants,         \* "stub": the publishTo* bodies of the source; "live": bodies honouring the publish contract
  faults,           \* storage calls that have returned an error so far
  pc,               \* per invocation: position in the handler
  now,              \* per invocation: const now
  postsToPublish,   \* per invocation: the rows returned by the selection query
  pIdx,             \* per invocation: index of the post of the outer loop
  socialAccounts,   \* per invocation: data of the accounts query ({} is null)
  cIdx,             \* per invocation: index of the content row of the inner loop
  successCount,
  failureCount,
  pending,          \* per invocation: publishResult / publishError awaiting its write
  postError,        \* per invocation: the error caught by the per-post catch
  results,          \* per invocation: const results
  response,         \* per invocation: the Response returned ({} while running)
  log,              \* per invocation: history of the storage and publish calls it made
  form,             \* CreatePost: the state of the component
  save,             \* CreatePost: the handleSave call in flight, with the state it closed over
  media_library,    \* table media_library: number of rows
  calendar          \* Calendar: the state of the component and its loadPosts calls in flight

vars == <<clock, posts, post_content, social_accounts, variants, faults, pc, now,
          postsToPublish, pIdx, socialAccounts, cIdx, successCount, failureCount,
          pending, postError, results, response, log, form, save, media_library, calendar>>

storeVars == <<posts, post_content, social_accounts>>
formVars == <<form, save, media_library>>
calVars == <<calendar>>
localVars == <<now, postsToPublish, pIdx, socialAccounts, cIdx, successCount,
               failureCount, pending, postError, results>>

\* ------------------------------------------------------------ the tables
RowId(p, plat) == <<p, plat>>
NoRow == <<>>

NewContent(p, plat) ==
  [id |-> RowId(p, plat), post_id |-> p, platform |-> plat,
   content_text |-> "text", hashtags |-> <<"#tag">>,
   published_url |-> None, published_at |-> None, error_message |-> None]

NewPost(p, t) ==
  [id |-> p, user_id |-> t.user_id, title |-> "post-" \o ToString(p),
   media_ids |-> <<>>, scheduled_for |-> t.scheduled_for, status |-> t.status]

Tpl(st, sf, u, n) ==
  [status |-> st, scheduled_for |-> sf, user_id |-> u, nrows |-> n, retried |-> FALSE]

\* a post of an earlier pass that was set back to scheduled by hand (spec, section 7)
Retried(t) == [t EXCEPT !.retried = TRUE]

\* its content rows keep the outcome of the earlier pass: the first an error,
\* the others a publication
RetriedContent(p, plat) ==
  IF plat = PlatformOrder[1]
  THEN [NewContent(p, plat) EXCEPT !.error_message = Some("previous error")]
  ELSE [NewContent(p, plat) EXCEPT !.published_url = Some("https://previous"),
                                   !.published_at = Some(0)]

\* The post shapes the small initial states draw from.
PostTemplates ==
  << Tpl("scheduled", Some(1), "u1", 0),
     Tpl("scheduled", Some(1), "u1", 1),
     Tpl("scheduled", Some(1), "u1", MaxRows),
     Retried(Tpl("scheduled", Some(1), "u1", MaxRows)),
     Tpl("scheduled", Some(1), "u2", 1),
     Tpl("scheduled", Some(MaxTime), "u1", 1),
     Tpl("scheduled", None, "u1", 1),
     Tpl("draft", None, "u1", 1),
     Tpl("publishing", Some(1), "u1", 1),
     Tpl("published", Some(1), "u1", 1),
     Tpl("failed", Some(MaxTime), "u1", 1) >>

Account(u, plat, act) == [user_id |-> u, platform |-> plat, is_active |-> act]

AccountConfigs ==
  { { Account("u2", "instagram", TRUE) },
    { Account("u1", "instagram", TRUE), Account("u1", "facebook", FALSE) },
    { Account("u1", "facebook", TRUE), Account("u1", "instagram", FALSE),
      Account("u2", "instagram", TRUE) },
    { Account("u1", plat, TRUE) : plat \in Platforms } \cup { Account("u2", "instagram", FALSE) } }

PostsOf(tpl) == [p \in DOMAIN tpl |-> NewPost(p, tpl[p])]

ContentOf(tpl) ==
  LET ids == { RowId(p, PlatformOrder[k]) : p \in DOMAIN tpl, k \in 1..Len(PlatformOrder) }
      used == { r \in ids : \E k \in 1..tpl[r[1]].nrows : PlatformOrder[k] = r[2] }
  IN  [r \in used |-> IF tpl[r[1]].retried THEN RetriedContent(r[1], r[2])
                                           ELSE NewContent(r[1], r[2])]

\* CreatePost.tsx lines 15-25: the initial state of the component
DefaultContent ==
  [platform |-> "instagram", content |-> "", hashtags |-> <<>>, characterLimit |-> 2200]

FormInitial ==
  [selectedPlatforms |-> <<"instagram">>, platformContent |-> <<DefaultContent>>,
   loading |-> FALSE]

SaveIdle ==
  [pc |-> "idle", status |-> "draft", title |-> "", files |-> 0, platformContent |-> <<>>,
   scheduledDate |-> None, scheduledTime |-> None, fileIdx |-> 0, mediaIds |-> <<>>,
   postId |-> 0, idx |-> 0, alert |-> None]

\* part_001 (Calendar): a month is a number (12 * year + month); in the model
\* a month lasts one tick of the clock
MonthOf(t) == t

\* part_001 lines 18-24: the state after the first render and its effect:
\* the month of new Date(), no post, loading, the first loadPosts in flight.
\* calls holds, for each loadPosts awaiting its query, the currentDate it
\* closed over, in the order the calls were made
CalendarInitial(t) ==
  [currentDate |-> MonthOf(t), posts |-> <<>>, loading |-> TRUE, calls |-> <<MonthOf(t)>>]

InitLocals ==
  /\ form = FormInitial
  /\ calendar = CalendarInitial(clock)
  /\ save = SaveIdle
  /\ media_library = 0
  /\ pc = [i \in Invs |-> "idle"]
  /\ now = [i \in Invs |-> 0]
  /\ postsToPublish = [i \in Invs |-> <<>>]
  /\ pIdx = [i \in Invs |-> 0]
  /\ socialAccounts = [i \in Invs |-> None]
  /\ cIdx = [i \in Invs |-> 0]
  /\ successCount = [i \in Invs |-> 0]
  /\ failureCount = [i \in Invs |-> 0]
  /\ pending = [i \in Invs |-> None]
  /\ postError = [i \in Invs |-> None]
  /\ results = [i \in Invs |-> <<>>]
  /\ response = [i \in Invs |-> None]
  /\ log = [i \in Invs |-> <<>>]

\* Small tables: every post shape, every account table, both publish variants.
InitSmall ==
  /\ clock = 1
  /\ \E f \in [1..NPosts -> 1..Len(PostTemplates)] :
       /\ \A p \in 1..(NPosts - 1) : f[p] <= f[p + 1]
       /\ LET tpl == [p \in 1..NPosts |-> PostTemplates[f[p]]]
          IN  posts = PostsOf(tpl) /\ post_content = ContentOf(tpl)
  /\ social_accounts \in AccountConfigs
  /\ variants \in {"stub", "live"}
  /\ faults = 0
  /\ InitLocals

\* Large tables, to fill a batch: the first k posts are due (the first of
\* them with one content row), the others are not.  The clock is one tick
\* from its end and part of the fault budget is spent.
NotDueTemplates ==
  << Tpl("scheduled", None, "u1", 0),
     Tpl("published", Some(1), "u1", 0),
     Tpl("draft", None, "u1", 0) >>

InitBatch ==
  /\ clock = MaxTime - 1
  /\ \E k \in 0..NBatchPosts :
       LET tpl == [p \in 1..NBatchPosts |->
                     IF p <= k
                     THEN Tpl("scheduled", Some(1), "u1", IF p = 1 THEN 1 ELSE 0)
                     ELSE NotDueTemplates[(p % Len(NotDueTemplates)) + 1]]
       IN  posts = PostsOf(tpl) /\ post_content = ContentOf(tpl)
  /\ social_accounts = { Account("u1", "instagram", TRUE) }
  /\ variants \in {"stub", "live"}
  /\ faults = MaxFaults - Min(MaxFaults, MaxBatchFaults)
  /\ InitLocals

\* ------------------------------------------------------------ the queries
RECURSIVE SortedSeq(_)
SortedSeq(S) ==
  IF S = {} THEN <<>>
  ELSE LET m == CHOOSE x \in S : \A y \in S : x <= y
       IN  <<m>> \o SortedSeq(S \ {m})

\* mutant: the selection without .lte('scheduled_for', now)
DuePostsNoTime(t) ==
  { p \in DOMAIN posts : posts[p].status = "scheduled" }

\* mutant: the selection without .eq('status', 'scheduled')
DuePostsAnyStatus(t) ==
  { p \in DOMAIN posts : \E sf \in posts[p].scheduled_for : sf <= t }

\* .eq('status', 'scheduled').lte('scheduled_for', now): a NULL scheduled_for matches nothing
DuePosts(t) ==
  { p \in DOMAIN posts :
      /\ posts[p].status = "scheduled"
      /\ \E sf \in posts[p].scheduled_for : sf <= t }

\* mutant: the selection without .limit(10)
LimitNone(S, n) == { S }

\* .limit(n) without an order: any n of the matching rows
Limit(S, n) == { T \in SUBSET S : Cardinality(T) = Min(Cardinality(S), n) }

\* the nested post_content (id, platform, content_text, hashtags) of one post
NestedContent(p) ==
  LET plats == { k \in 1..Len(PlatformOrder) : RowId(p, PlatformOrder[k]) \in DOMAIN post_content }
      ks == SortedSeq(plats)
  IN  [j \in 1..Len(ks) |->
         LET r == post_content[RowId(p, PlatformOrder[ks[j]])]
         IN  [id |-> r.id, platform |-> r.platform,
              content_text |-> r.content_text, hashtags |-> r.hashtags]]

Snapshot(p) ==
  [id |-> p, user_id |-> posts[p].user_id, title |-> posts[p].title,
   media_ids |-> posts[p].media_ids, scheduled_for |-> posts[p].scheduled_for,
   post_content |-> NestedContent(p)]

\* .eq('user_id', u).eq('is_active', true)
ActiveAccounts(u) == { a \in social_accounts : a.user_id = u /\ a.is_active }

Ev(op, p, r, v, ok) == [op |-> op, post |-> p, row |-> r, value |-> v, ok |-> ok]

\* a storage call may return an error while the fault budget lasts
Outcomes == IF faults < MaxFaults THEN {TRUE, FALSE} ELSE {TRUE}
Charge(ok) == faults' = IF ok THEN faults ELSE faults + 1

\* ------------------------------------------------------------ the handler
Tick ==
  /\ clock < MaxTime
  /\ clock' = clock + 1
  /\ UNCHANGED <<storeVars, variants, formVars, calVars, faults, pc, localVars, response, log>>

\* mutant: fetchError is not thrown; the null data is answered as an empty batch
FetchErrorIgnored == [status |-> 200, message |-> MsgNone, processed |-> 0]

\* lines 44, 153-161: fetchError is thrown to the outer catch
FetchErrorResponse == [status |-> 500, error |-> "fetchError"]

\* lines 46-54
EmptyResponse == [status |-> 200, message |-> MsgNone, processed |-> 0]

\* lines 23-54: read the clock, run the selection query, answer at once when
\* it failed (outer catch, 500) or returned nothing (200, processed 0)
SelectPosts(i) ==
  /\ pc[i] = "idle"
  /\ \E ok \in Outcomes :
       /\ Charge(ok)
       /\ now' = [now EXCEPT ![i] = clock]
       /\ log' = [log EXCEPT ![i] = Append(@, Ev("selectPosts", 0, NoRow, "", ok))]
       /\ IF ~ok
          THEN /\ response' = [response EXCEPT ![i] = Some(FetchErrorResponse)]
               /\ pc' = [pc EXCEPT ![i] = "done"]
               /\ UNCHANGED <<postsToPublish, pIdx>>
          ELSE \E T \in Limit(DuePosts(clock), BatchLimit) :
                 LET ids == SortedSeq(T)
                     data == [k \in 1..Len(ids) |-> Snapshot(ids[k])]
                 IN  /\ postsToPublish' = [postsToPublish EXCEPT ![i] = data]
                     /\ IF Len(data) = 0
                        THEN /\ response' = [response EXCEPT ![i] = Some(EmptyResponse)]
                             /\ pc' = [pc EXCEPT ![i] = "done"]
                             /\ UNCHANGED pIdx
                        ELSE /\ pIdx' = [pIdx EXCEPT ![i] = 1]
                             /\ pc' = [pc EXCEPT ![i] = "markPublishing"]
                             /\ UNCHANGED response
  /\ UNCHANGED <<clock, storeVars, variants, formVars, calVars, socialAccounts, cIdx, successCount,
                 failureCount, pending, postError, results>>

\* the post and the content row the loops are at
Post(i) == postsToPublish[i][pIdx[i]]
Content(i) == Post(i).post_content[cIdx[i]]

\* mutant: an entry with an error ends the batch with the 500 of the outer catch
PushResultAbort(i, entry) ==
  IF "error" \in DOMAIN entry
  THEN /\ response' = [response EXCEPT ![i] = Some([status |-> 500, error |-> entry.error])]
       /\ pc' = [pc EXCEPT ![i] = "done"]
       /\ UNCHANGED <<results, pIdx>>
  ELSE /\ results' = [results EXCEPT ![i] = Append(@, entry)]
       /\ IF pIdx[i] < Len(postsToPublish[i])
          THEN /\ pIdx' = [pIdx EXCEPT ![i] = @ + 1]
               /\ pc' = [pc EXCEPT ![i] = "markPublishing"]
               /\ UNCHANGED response
          ELSE /\ response' = [response EXCEPT ![i] =
                    Some([status |-> 200, message |-> MsgDone,
                          processed |-> Len(postsToPublish[i]),
                          results |-> Append(results[i], entry)])]
               /\ pc' = [pc EXCEPT ![i] = "done"]
               /\ UNCHANGED pIdx

\* end of one iteration of the outer loop (lines 122-127, 134-147): push the
\* entry, go to the next post or return the 200 summary
PushResult(i, entry) ==
  /\ results' = [results EXCEPT ![i] = Append(@, entry)]
  /\ IF pIdx[i] < Len(postsToPublish[i])
     THEN /\ pIdx' = [pIdx EXCEPT ![i] = @ + 1]
          /\ pc' = [pc EXCEPT ![i] = "markPublishing"]
          /\ UNCHANGED response
     ELSE /\ response' = [response EXCEPT ![i] =
               Some([status |-> 200, message |-> MsgDone,
                     processed |-> Len(postsToPublish[i]),
                     results |-> Append(results[i], entry)])]
          /\ pc' = [pc EXCEPT ![i] = "done"]
          /\ UNCHANGED pIdx

\* mutant: a publish error leaves the inner loop
NextContentBreak(i) ==
  IF cIdx[i] < Len(postsToPublish[i][pIdx[i]].post_content) /\ pc[i] # "writeFailure"
  THEN /\ cIdx' = [cIdx EXCEPT ![i] = @ + 1]
       /\ pc' = [pc EXCEPT ![i] = "content"]
  ELSE /\ pc' = [pc EXCEPT ![i] = "finalStatus"]
       /\ UNCHANGED cIdx

\* end of one iteration of the inner loop (line 76)
NextContent(i) ==
  IF cIdx[i] < Len(Post(i).post_content)
  THEN /\ cIdx' = [cIdx EXCEPT ![i] = @ + 1]
       /\ pc' = [pc EXCEPT ![i] = "content"]
  ELSE /\ pc' = [pc EXCEPT ![i] = "finalStatus"]
       /\ UNCHANGED cIdx

\* mutant: updateError is not thrown
MarkPublishingUnchecked(i) ==
  /\ pc[i] = "markPublishing"
  /\ \E ok \in Outcomes :
       /\ Charge(ok)
       /\ log' = [log EXCEPT ![i] = Append(@, Ev("updatePost", Post(i).id, NoRow, "publishing", ok))]
       /\ posts' = IF ok THEN [posts EXCEPT ![Post(i).id].status = "publishing"] ELSE posts
       /\ pc' = [pc EXCEPT ![i] = "fetchAccounts"]
  /\ UNCHANGED <<clock, post_content, social_accounts, variants, formVars, calVars, now, postsToPublish, pIdx,
                 socialAccounts, cIdx, successCount, failureCount, pending, postError, results,
                 response>>

\* mutant: the update without .eq('id', post.id)
MarkPublishingAll(i) ==
  /\ pc[i] = "markPublishing"
  /\ \E ok \in Outcomes :
       /\ Charge(ok)
       /\ log' = [log EXCEPT ![i] = Append(@, Ev("updatePost", Post(i).id, NoRow, "publishing", ok))]
       /\ IF ok
          THEN /\ posts' = [p \in DOMAIN posts |-> [posts[p] EXCEPT !.status = "publishing"]]
               /\ pc' = [pc EXCEPT ![i] = "fetchAccounts"]
               /\ UNCHANGED postError
          ELSE /\ postError' = [postError EXCEPT ![i] = Some("updateError")]
               /\ pc' = [pc EXCEPT ![i] = "forceFailed"]
               /\ UNCHANGED posts
  /\ UNCHANGED <<clock, post_content, social_accounts, variants, formVars, calVars, now, postsToPublish, pIdx,
                 socialAccounts, cIdx, successCount, failureCount, pending, results, response>>

\* mutant: a post that is no longer scheduled is not taken
MarkPublishingGuarded(i) ==
  /\ pc[i] = "markPublishing"
  /\ \E ok \in Outcomes :
       /\ Charge(ok)
       /\ log' = [log EXCEPT ![i] = Append(@, Ev("updatePost", Post(i).id, NoRow, "publishing", ok))]
       /\ IF ok /\ posts[Post(i).id].status = "scheduled"
          THEN /\ posts' = [posts EXCEPT ![Post(i).id].status = "publishing"]
               /\ pc' = [pc EXCEPT ![i] = "fetchAccounts"]
               /\ UNCHANGED postError
          ELSE /\ postError' = [postError EXCEPT ![i] = Some("updateError")]
               /\ pc' = [pc EXCEPT ![i] = "forceFailed"]
               /\ UNCHANGED posts
  /\ UNCHANGED <<clock, post_content, social_accounts, variants, formVars, calVars, now, postsToPublish, pIdx,
                 socialAccounts, cIdx, successCount, failureCount, pending, results, response>>

\* lines 59-65: update the post to publishing; an error is thrown to the per-post catch
MarkPublishing(i) ==
  /\ pc[i] = "markPublishing"
  /\ \E ok \in Outcomes :
       /\ Charge(ok)
       /\ log' = [log EXCEPT ![i] = Append(@, Ev("updatePost", Post(i).id, NoRow, "publishing", ok))]
       /\ IF ok
          THEN /\ posts' = [posts EXCEPT ![Post(i).id].status = "publishing"]
               /\ pc' = [pc EXCEPT ![i] = "fetchAccounts"]
               /\ UNCHANGED postError
          ELSE /\ postError' = [postError EXCEPT ![i] = Some("updateError")]
               /\ pc' = [pc EXCEPT ![i] = "forceFailed"]
               /\ UNCHANGED posts
  /\ UNCHANGED <<clock, post_content, social_accounts, variants, formVars, calVars, now, postsToPublish, pIdx,
                 socialAccounts, cIdx, successCount, failureCount, pending, results, response>>

\* mutant: the accounts are fetched for the first post and kept for the others
FetchAccountsCached(i) ==
  /\ pc[i] = "fetchAccounts"
  /\ \E ok \in Outcomes :
       /\ Charge(ok)
       /\ log' = [log EXCEPT ![i] = Append(@, Ev("selectAccounts", Post(i).id, NoRow, "", ok))]
       /\ socialAccounts' = [socialAccounts EXCEPT ![i] =
            IF pIdx[i] > 1 THEN @
            ELSE IF ok THEN Some(ActiveAccounts(Post(i).user_id)) ELSE None]
  /\ successCount' = [successCount EXCEPT ![i] = 0]
  /\ failureCount' = [failureCount EXCEPT ![i] = 0]
  /\ IF Len(Post(i).post_content) = 0
     THEN pc' = [pc EXCEPT ![i] = "finalStatus"] /\ UNCHANGED cIdx
     ELSE pc' = [pc EXCEPT ![i] = "content"] /\ cIdx' = [cIdx EXCEPT ![i] = 1]
  /\ UNCHANGED <<clock, storeVars, variants, formVars, calVars, now, postsToPublish, pIdx, pending,
                 postError, results, response>>

\* lines 67-76: fetch the owner's active accounts (the error of this query is
\* not read: data is null), reset the counters, enter the content loop
FetchAccounts(i) ==
  /\ pc[i] = "fetchAccounts"
  /\ \E ok \in Outcomes :
       /\ Charge(ok)
       /\ log' = [log EXCEPT ![i] = Append(@, Ev("selectAccounts", Post(i).id, NoRow, "", ok))]
       /\ socialAccounts' = [socialAccounts EXCEPT ![i] =
            IF ok THEN Some(ActiveAccounts(Post(i).user_id)) ELSE None]
  /\ successCount' = [successCount EXCEPT ![i] = 0]
  /\ failureCount' = [failureCount EXCEPT ![i] = 0]
  /\ IF Len(Post(i).post_content) = 0
     THEN pc' = [pc EXCEPT ![i] = "finalStatus"] /\ UNCHANGED cIdx
     ELSE pc' = [pc EXCEPT ![i] = "content"] /\ cIdx' = [cIdx EXCEPT ![i] = 1]
  /\ UNCHANGED <<clock, storeVars, variants, formVars, calVars, now, postsToPublish, pIdx, pending,
                 postError, results, response>>

\* mutant: find() with a predicate that does not compare the platform
FindAccountAny(sa, plat) ==
  IF sa = None THEN {} ELSE The(sa)

\* line 77: socialAccounts?.find(acc => acc.platform === content.platform)
FindAccount(sa, plat) ==
  IF sa = None THEN {} ELSE { a \in The(sa) : a.platform = plat }

\* lines 82, 110: .update({ error_message })
ErrorRowClearing(row, msg) ==
  [row EXCEPT !.error_message = Some(msg), !.published_url = None, !.published_at = None]

ErrorRow(row, msg) == [row EXCEPT !.error_message = Some(msg)]

\* mutant: the update without error_message: null
PublishedRowKeepError(row, url, t) ==
  [row EXCEPT !.published_url = Some(url), !.published_at = Some(t)]

\* lines 99-103: .update({ published_url, published_at, error_message: null })
PublishedRow(row, url, t) ==
  [row EXCEPT !.published_url = Some(url), !.published_at = Some(t), !.error_message = None]

\* lines 79-86: no account: write the literal, count a failure, continue
NoAccount(i) ==
  /\ pc[i] = "content"
  /\ FindAccount(socialAccounts[i], Content(i).platform) = {}
  /\ \E ok \in Outcomes :
       /\ Charge(ok)
       /\ log' = [log EXCEPT ![i] =
            Append(@, Ev("updateContentError", Post(i).id, Content(i).id, NotConnected, ok))]
       /\ post_content' = IF ok
            THEN [post_content EXCEPT ![Content(i).id] = ErrorRow(@, NotConnected)]
            ELSE post_content
  /\ failureCount' = [failureCount EXCEPT ![i] = @ + 1]
  /\ NextContent(i)
  /\ UNCHANGED <<clock, posts, social_accounts, variants, formVars, calVars, now, postsToPublish, pIdx,
                 socialAccounts, successCount, pending, postError, results, response>>

Published(url) == [ok |-> TRUE, url |-> url, message |-> ""]
Thrown(msg) == [ok |-> FALSE, url |-> "", message |-> msg]

\* mutant: a variant that returns a URL
PublishToInstagramUrl(v) == { Published("https://instagram/p") }

\* mutant: a variant whose call never returns
PublishToInstagramHang(v) == {}

\* lines 188-218: the four publish variants.  "stub" is the body in the
\* source; "live" is a body that honours the variant's contract (a URL or a failure).
PublishToInstagram(v) ==
  IF v = "stub"
  THEN { Thrown("Instagram API necessite une configuration OAuth complete avec un compte Business") }
  ELSE { Published("https://instagram/p"), Thrown("Instagram API error") }

PublishToFacebook(v) ==
  IF v = "stub"
  THEN { Thrown("Facebook API necessite une configuration OAuth complete") }
  ELSE { Published("https://facebook/p"), Thrown("Facebook API error") }

PublishToTikTok(v) ==
  IF v = "stub"
  THEN { Thrown("TikTok API necessite une configuration OAuth complete") }
  ELSE { Published("https://tiktok/p"), Thrown("TikTok API error") }

PublishToPinterest(v) ==
  IF v = "stub"
  THEN { Thrown("Pinterest API necessite une configuration OAuth complete") }
  ELSE { Published("https://pinterest/p"), Thrown("Pinterest API error") }

\* lines 165-186
PublishToSocialMedia(platform, v) ==
  CASE platform = "instagram" -> PublishToInstagram(v)
    [] platform = "facebook" -> PublishToFacebook(v)
    [] platform = "tiktok" -> PublishToTikTok(v)
    [] platform = "pinterest" -> PublishToPinterest(v)
    [] OTHER -> { Thrown("Plateforme non supportee: " \o platform) }

\* lines 88-95: an account matched: await the publish operation
Publish(i) ==
  /\ pc[i] = "content"
  /\ FindAccount(socialAccounts[i], Content(i).platform) # {}
  /\ \E res \in PublishToSocialMedia(Content(i).platform, variants) :
       /\ pending' = [pending EXCEPT ![i] = Some(res)]
       /\ log' = [log EXCEPT ![i] =
            Append(@, Ev("publish", Post(i).id, Content(i).id,
                         IF res.ok THEN res.url ELSE res.message, res.ok))]
       /\ pc' = [pc EXCEPT ![i] = IF res.ok THEN "writeSuccess" ELSE "writeFailure"]
  /\ UNCHANGED <<clock, storeVars, variants, formVars, calVars, faults, now, postsToPublish, pIdx, socialAccounts,
                 cIdx, successCount, failureCount, postError, results, response>>

\* lines 97-106: record the URL and the time, clear the error, count a success
WriteSuccess(i) ==
  /\ pc[i] = "writeSuccess"
  /\ \E ok \in Outcomes :
       /\ Charge(ok)
       /\ log' = [log EXCEPT ![i] =
            Append(@, Ev("updateContentPublished", Post(i).id, Content(i).id, The(pending[i]).url, ok))]
       /\ post_content' = IF ok
            THEN [post_content EXCEPT ![Content(i).id] =
                    PublishedRow(@, The(pending[i]).url, clock)]
            ELSE post_content
  /\ successCount' = [successCount EXCEPT ![i] = @ + 1]
  /\ pending' = [pending EXCEPT ![i] = None]
  /\ NextContent(i)
  /\ UNCHANGED <<clock, posts, social_accounts, variants, formVars, calVars, now, postsToPublish, pIdx,
                 socialAccounts, failureCount, postError, results, response>>

\* lines 107-113: record the message of the publish error, count a failure
WriteFailure(i) ==
  /\ pc[i] = "writeFailure"
  /\ \E ok \in Outcomes :
       /\ Charge(ok)
       /\ log' = [log EXCEPT ![i] =
            Append(@, Ev("updateContentError", Post(i).id, Content(i).id, The(pending[i]).message, ok))]
       /\ post_content' = IF ok
            THEN [post_content EXCEPT ![Content(i).id] = ErrorRow(@, The(pending[i]).message)]
            ELSE post_content
  /\ failureCount' = [failureCount EXCEPT ![i] = @ + 1]
  /\ pending' = [pending EXCEPT ![i] = None]
  /\ NextContent(i)
  /\ UNCHANGED <<clock, posts, social_accounts, variants, formVars, calVars, now, postsToPublish, pIdx,
                 socialAccounts, successCount, postError, results, response>>

\* mutant: any failure fails the post
FinalStatusStrict(s, f) == IF f = 0 THEN "published" ELSE "failed"

\* mutant: the branches of the inner conditional swapped
FinalStatusSwapped(s, f) == IF f = 0 THEN "published" ELSE (IF s > 0 THEN "failed" ELSE "published")

\* line 116
FinalStatusOf(s, f) == IF f = 0 THEN "published" ELSE (IF s > 0 THEN "published" ELSE "failed")

\* mutant: the final update is not awaited; the loop goes on without it
FinalStatusNotAwaited(i) ==
  /\ pc[i] = "finalStatus"
  /\ PushResult(i, [post_id |-> Post(i).id, title |-> Post(i).title,
                    success |-> successCount[i], failed |-> failureCount[i]])
  /\ UNCHANGED <<clock, storeVars, variants, formVars, calVars, faults, now, postsToPublish,
                 socialAccounts, cIdx, successCount, failureCount, pending, postError, log>>

\* lines 116-127: write the final status (the result of the update is not
\* read) and push the entry with the counters
FinalStatus(i) ==
  /\ pc[i] = "finalStatus"
  /\ LET finalStatus == FinalStatusOf(successCount[i], failureCount[i])
     IN  \E ok \in Outcomes :
           /\ Charge(ok)
           /\ log' = [log EXCEPT ![i] = Append(@, Ev("updatePost", Post(i).id, NoRow, finalStatus, ok))]
           /\ posts' = IF ok THEN [posts EXCEPT ![Post(i).id].status = finalStatus] ELSE posts
  /\ PushResult(i, [post_id |-> Post(i).id, title |-> Post(i).title,
                    success |-> successCount[i], failed |-> failureCount[i]])
  /\ UNCHANGED <<clock, post_content, social_accounts, variants, formVars, calVars, now, postsToPublish,
                 socialAccounts, cIdx, successCount, failureCount, pending, postError>>

\* mutant: the catch pushes the entry of the normal path
ForceFailedCounts(i) ==
  /\ pc[i] = "forceFailed"
  /\ \E ok \in Outcomes :
       /\ Charge(ok)
       /\ log' = [log EXCEPT ![i] = Append(@, Ev("updatePost", Post(i).id, NoRow, "failed", ok))]
       /\ posts' = IF ok THEN [posts EXCEPT ![Post(i).id].status = "failed"] ELSE posts
  /\ PushResult(i, [post_id |-> Post(i).id, title |-> Post(i).title,
                    success |-> successCount[i], failed |-> failureCount[i]])
  /\ postError' = [postError EXCEPT ![i] = None]
  /\ UNCHANGED <<clock, post_content, social_accounts, variants, formVars, calVars, now, postsToPublish,
                 socialAccounts, cIdx, successCount, failureCount, pending>>

\* lines 128-139: the per-post catch: write failed (the result of the update
\* is not read) and push the entry with the error
ForceFailed(i) ==
  /\ pc[i] = "forceFailed"
  /\ \E ok \in Outcomes :
       /\ Charge(ok)
       /\ log' = [log EXCEPT ![i] = Append(@, Ev("updatePost", Post(i).id, NoRow, "failed", ok))]
       /\ posts' = IF ok THEN [posts EXCEPT ![Post(i).id].status = "failed"] ELSE posts
  /\ PushResult(i, [post_id |-> Post(i).id, title |-> Post(i).title,
                    error |-> The(postError[i])])
  /\ postError' = [postError EXCEPT ![i] = None]
  /\ UNCHANGED <<clock, post_content, social_accounts, variants, formVars, calVars, now, postsToPublish,
                 socialAccounts, cIdx, successCount, failureCount, pending>>

Step(i) ==
  \/ MarkPublishing(i)
  \/ FetchAccounts(i)
  \/ NoAccount(i)
  \/ Publish(i)
  \/ WriteSuccess(i)
  \/ WriteFailure(i)
  \/ FinalStatus(i)
  \/ ForceFailed(i)

\* invocations of the external scheduler that do not overlap
Serial(i) ==
  /\ \A j \in Invs : j < i => pc[j] = "done"
  /\ \A j \in Invs : j > i => pc[j] = "idle"

Invoke(i) == Serial(i) /\ SelectPosts(i)

Init == InitSmall

Next ==
  \/ Tick
  \/ \E i \in Invs : Invoke(i)
  \/ \E i \in Invs : Step(i)

Spec == Init /\ [][Next]_vars

SpecBatch == InitBatch /\ [][Next]_vars

\* every awaited call of a started invocation eventually returns
CallsReturn == \A i \in Invs : WF_vars(Step(i))

SpecBatchLive == InitBatch /\ [][Next]_vars /\ CallsReturn

\* -------------------------------------------------- overlapping invocations
\* The scheduler may fire an invocation while another is running: nothing in
\* the handler waits for another invocation.
OverlapTemplates ==
  << Tpl("scheduled", Some(1), "u1", 1),
     Tpl("draft", None, "u1", 1) >>

InitOverlap ==
  /\ clock = 1
  /\ \E f \in [1..NPosts -> 1..Len(OverlapTemplates)] :
       /\ f[1] = 1
       /\ \A p \in 1..(NPosts - 1) : f[p] <= f[p + 1]
       /\ LET tpl == [p \in 1..NPosts |-> OverlapTemplates[f[p]]]
          IN  posts = PostsOf(tpl) /\ post_content = ContentOf(tpl)
  /\ social_accounts = { Account("u1", "instagram", TRUE) }
  /\ variants = "live"
  /\ faults = MaxFaults - Min(MaxFaults, MaxOverlapFaults)
  /\ InitLocals

NextOverlap ==
  \/ \E i \in Invs : SelectPosts(i)
  \/ \E i \in Invs : Step(i)

SpecOverlap == InitOverlap /\ [][NextOverlap]_vars

\* ------------------------------------------------------ changing accounts
\* The owner of an account may update it at any time (policy "Users can update
\* own social accounts"): is_active is switched while the dispatcher runs.
SetActive(a) ==
  /\ a \in social_accounts
  /\ social_accounts' = (social_accounts \ {a}) \cup {[a EXCEPT !.is_active = ~a.is_active]}
  /\ UNCHANGED <<clock, posts, post_content, variants, formVars, calVars, faults, pc, localVars,
                 response, log>>

InitAccounts ==
  /\ clock = 1
  /\ LET tpl == [p \in 1..NPosts |-> Tpl("scheduled", Some(1), "u1", MaxRows)]
     IN  posts = PostsOf(tpl) /\ post_content = ContentOf(tpl)
  /\ social_accounts = { Account("u1", "instagram", TRUE), Account("u1", "facebook", FALSE) }
  /\ variants \in {"stub", "live"}
  /\ faults = MaxFaults - Min(MaxFaults, MaxAccountFaults)
  /\ InitLocals

NextAccounts ==
  \/ \E i \in Invs : Invoke(i)
  \/ \E i \in Invs : Step(i)
  \/ \E u \in Users, plat \in Platforms, act \in BOOLEAN : SetActive(Account(u, plat, act))

SpecAccounts == InitAccounts /\ [][NextAccounts]_vars

\* ------------------------------------------------------ the authoring form
\* CreatePost.tsx.  The user of the session is u1.  A date is a day number and
\* a time a slot of the day; new Date(`${date}T${time}`) is the instant of
\* that slot.
FormUser == "u1"
Titles == {"", " ", "My post"}
Trim(t) == IF t = " " THEN "" ELSE t
FormPlatforms == { PlatformOrder[k] : k \in 1..Min(MaxRows, Len(PlatformOrder)) }
SlotsPerDay == MaxTime + 1
FormDates == {0}
FormTimes == {1}
ToInstant(d, t) == d * SlotsPerDay + t

AlertTitle == "Veuillez entrer un titre"
AlertDate == "Veuillez selectionner une date et heure de publication"
AlertDraft == "Brouillon enregistre"
AlertScheduled == "Post programme avec succes"
AlertError == "Erreur lors de l'enregistrement"

\* lines 27-32: platforms.find(p => p.id === platformId)?.limit || 2200
CharacterLimit(plat) ==
  CASE plat = "facebook" -> 63206
    [] plat = "pinterest" -> 500
    [] OTHER -> 2200

\* the user edits the form between two saves and between two invocations of
\* the dispatcher: an edit touches the component only, so it commutes with
\* every dispatcher step
Editable == save.pc = "idle" /\ \A i \in Invs : pc[i] \in {"idle", "done"}

FormFrame == UNCHANGED <<clock, storeVars, variants, faults, pc, localVars, response, log,
                         save, media_library, calendar>>

\* lines 56-68
TogglePlatform(platformId) ==
  /\ Editable
  /\ IF \E k \in 1..Len(form.selectedPlatforms) : form.selectedPlatforms[k] = platformId
     THEN form' = [form EXCEPT
            !.selectedPlatforms = SelectSeq(@, LAMBDA id : id # platformId),
            !.platformContent = SelectSeq(@, LAMBDA c : c.platform # platformId)]
     ELSE form' = [form EXCEPT
            !.selectedPlatforms = Append(@, platformId),
            !.platformContent = Append(@, [platform |-> platformId, content |-> "",
                                           hashtags |-> <<>>,
                                           characterLimit |-> CharacterLimit(platformId)])]
  /\ FormFrame

\* lines 198-203 and 208: the form after a save that reached its end
FormReset == [form EXCEPT !.platformContent = <<DefaultContent>>, !.loading = FALSE]

\* lines 204-209: catch and finally
SaveFailed ==
  /\ form' = [form EXCEPT !.loading = FALSE]
  /\ save' = [SaveIdle EXCEPT !.alert = Some(AlertError)]

\* lines 196-203, 207-209
SaveSucceeded ==
  /\ form' = FormReset
  /\ save' = [SaveIdle EXCEPT !.alert =
                Some(IF save.status = "draft" THEN AlertDraft ELSE AlertScheduled)]

\* mutant: the insert always carries scheduled_for: null
ScheduledForOmitted(status, d, t) == None

\* lines 165-167
ScheduledFor(status, d, t) ==
  IF status = "scheduled" THEN Some(ToInstant(The(d), The(t))) ELSE None

\* lines 120-131 (the buttons of lines 354-367 are disabled while loading).
\* title, files, scheduledDate and scheduledTime are what the user has entered
\* in the inputs when the button is clicked ('' is {}): validate, then close
\* over the state of the component and start saving
HandleSave(status, title, files, scheduledDate, scheduledTime) ==
  /\ ~form.loading
  /\ save.pc = "idle"
  /\ Len(posts) < MaxSaves
  /\ IF Trim(title) = ""
     THEN save' = [save EXCEPT !.alert = Some(AlertTitle)] /\ UNCHANGED form
     ELSE IF status = "scheduled" /\ (scheduledDate = None \/ scheduledTime = None)
     THEN save' = [save EXCEPT !.alert = Some(AlertDate)] /\ UNCHANGED form
     ELSE /\ form' = [form EXCEPT !.loading = TRUE]
          /\ save' = [pc |-> IF files > 0 THEN "upload" ELSE "insertPost",
                      status |-> status, title |-> title, files |-> files,
                      platformContent |-> form.platformContent,
                      scheduledDate |-> scheduledDate, scheduledTime |-> scheduledTime,
                      fileIdx |-> IF files > 0 THEN 1 ELSE 0, mediaIds |-> <<>>,
                      postId |-> 0, idx |-> 0, alert |-> None]
  /\ save' # save
  /\ UNCHANGED <<clock, storeVars, variants, faults, pc, localVars, response, log,
                 media_library, calendar>>

\* lines 139-143: upload one file
Upload ==
  /\ save.pc = "upload"
  /\ \E ok \in Outcomes :
       /\ Charge(ok)
       /\ IF ok
          THEN save' = [save EXCEPT !.pc = "insertMedia"] /\ UNCHANGED form
          ELSE SaveFailed
  /\ UNCHANGED <<clock, storeVars, variants, pc, localVars, response, log, media_library, calendar>>

\* lines 149-163: insert the media row of the file, go to the next file
InsertMedia ==
  /\ save.pc = "insertMedia"
  /\ \E ok \in Outcomes :
       /\ Charge(ok)
       /\ IF ok
          THEN /\ media_library' = media_library + 1
               /\ save' = [save EXCEPT
                    !.mediaIds = Append(@, media_library + 1),
                    !.fileIdx = IF save.fileIdx < save.files THEN @ + 1 ELSE @,
                    !.pc = IF save.fileIdx < save.files THEN "upload" ELSE "insertPost"]
               /\ UNCHANGED form
          ELSE SaveFailed /\ UNCHANGED media_library
  /\ UNCHANGED <<clock, storeVars, variants, pc, localVars, response, log, calendar>>

\* lines 165-181: insert the post row
InsertPost ==
  /\ save.pc = "insertPost"
  /\ \E ok \in Outcomes :
       /\ Charge(ok)
       /\ IF ok
          THEN /\ posts' = Append(posts,
                    [id |-> Len(posts) + 1, user_id |-> FormUser, title |-> save.title,
                     media_ids |-> save.mediaIds,
                     scheduled_for |-> ScheduledFor(save.status, save.scheduledDate,
                                                    save.scheduledTime),
                     status |-> save.status])
               /\ IF save.platformContent = <<>>
                  THEN SaveSucceeded
                  ELSE /\ save' = [save EXCEPT !.pc = "insertContent",
                                               !.postId = Len(posts) + 1, !.idx = 1]
                       /\ UNCHANGED form
          ELSE SaveFailed /\ UNCHANGED posts
  /\ UNCHANGED <<clock, post_content, social_accounts, variants, pc, localVars, response, log,
                 media_library, calendar>>

\* lines 183-194: insert one content row; UNIQUE(post_id, platform) rejects a
\* second row of the same platform
InsertContent ==
  /\ save.pc = "insertContent"
  /\ LET c == save.platformContent[save.idx]
         id == RowId(save.postId, c.platform)
     IN  IF id \in DOMAIN post_content
         THEN SaveFailed /\ UNCHANGED <<post_content, faults>>
         ELSE \E ok \in Outcomes :
                /\ Charge(ok)
                /\ IF ok
                   THEN /\ post_content' =
                             (id :> [NewContent(save.postId, c.platform) EXCEPT
                                       !.content_text = c.content, !.hashtags = c.hashtags])
                               @@ post_content
                        /\ IF save.idx < Len(save.platformContent)
                           THEN save' = [save EXCEPT !.idx = @ + 1] /\ UNCHANGED form
                           ELSE SaveSucceeded
                   ELSE SaveFailed /\ UNCHANGED post_content
  /\ UNCHANGED <<clock, posts, social_accounts, variants, pc, localVars, response, log,
                 media_library, calendar>>

FormStep ==
  \/ \E plat \in FormPlatforms : TogglePlatform(plat)
  \/ \E status \in {"draft", "scheduled"}, title \in Titles, files \in 0..MaxFiles,
        d \in {None} \cup { Some(x) : x \in FormDates },
        t \in {None} \cup { Some(x) : x \in FormTimes } :
          HandleSave(status, title, files, d, t)
  \/ Upload
  \/ InsertMedia
  \/ InsertPost
  \/ InsertContent

\* the tables before the first save: no post yet
InitForm ==
  /\ clock = 1
  /\ posts = <<>>
  /\ post_content = <<>>
  /\ social_accounts = { Account(FormUser, "facebook", TRUE), Account(FormUser, "instagram", FALSE) }
  /\ variants = "live"
  /\ faults = MaxFaults - Min(MaxFaults, MaxFormFaults)
  /\ InitLocals

NextForm ==
  \/ \E i \in Invs : Invoke(i)
  \/ \E i \in Invs : Step(i)
  \/ FormStep

SpecForm == InitForm /\ [][NextForm]_vars

\* ------------------------------------------------------ the calendar view
\* part_001 (Calendar).  The user of the session is u1.
CalUser == "u1"

\* lines 32-44: the posts of the user whose scheduled_for lies within month m
\* (a NULL scheduled_for matches nothing), by ascending scheduled_for, each
\* with the platforms of its content rows
MonthPosts(m) ==
  LET S == { q \in DOMAIN posts :
               /\ posts[q].user_id = CalUser
               /\ \E sf \in posts[q].scheduled_for : MonthOf(sf) = m }
      n == Len(posts) + 1
      ks == SortedSeq({ The(posts[q].scheduled_for) * n + q : q \in S })
  IN  [j \in 1..Len(ks) |->
         LET q == ks[j] % n
         IN  [id |-> q, title |-> posts[q].title, scheduled_for |-> posts[q].scheduled_for,
              status |-> posts[q].status,
              post_content |-> [c \in DOMAIN NestedContent(q) |->
                                  [platform |-> NestedContent(q)[c].platform]]]]

CalendarFrame == UNCHANGED <<clock, storeVars, variants, faults, pc, localVars, response, log,
                             formVars>>

\* lines 22-31: the effect of a render with a new currentDate calls loadPosts,
\* which sets loading and awaits the query of the month it closed over
SetCurrentDate(m) ==
  [calendar EXCEPT !.currentDate = m, !.loading = TRUE, !.calls = Append(@, m)]

\* lines 77-79
PreviousMonth ==
  /\ Len(calendar.calls) < MaxCalls
  /\ calendar.currentDate > 0
  /\ calendar' = SetCurrentDate(calendar.currentDate - 1)
  /\ CalendarFrame

\* lines 81-83
NextMonth ==
  /\ Len(calendar.calls) < MaxCalls
  /\ calendar.currentDate < MaxMonth
  /\ calendar' = SetCurrentDate(calendar.currentDate + 1)
  /\ CalendarFrame

\* lines 32-52: the query of the k-th call in flight returns, in any order
\* with respect to the others: setPosts(data) unless it returned an error,
\* then setLoading(false)
LoadPostsReturn(k) ==
  /\ k \in 1..Len(calendar.calls)
  /\ \E ok \in Outcomes :
       /\ Charge(ok)
       /\ calendar' = [calendar EXCEPT
            !.posts = IF ok THEN MonthPosts(calendar.calls[k]) ELSE @,
            !.loading = FALSE,
            !.calls = SubSeq(@, 1, k - 1) \o SubSeq(@, k + 1, Len(@))]
  /\ UNCHANGED <<clock, storeVars, variants, pc, localVars, response, log, formVars>>

\* the posts the calendar is opened on: some in each month, of either user,
\* with and without a date
CalendarTemplates ==
  << Tpl("scheduled", Some(0), "u1", 1),
     Tpl("published", Some(1), "u1", MaxRows),
     Tpl("scheduled", Some(MaxMonth), "u1", 0),
     Tpl("scheduled", Some(1), "u2", 1),
     Tpl("draft", None, "u1", 1) >>

InitCalendar ==
  /\ clock = 1
  /\ \E f \in [1..NPosts -> 1..Len(CalendarTemplates)] :
       /\ \A q \in 1..(NPosts - 1) : f[q] <= f[q + 1]
       /\ LET tpl == [q \in 1..NPosts |-> CalendarTemplates[f[q]]]
          IN  posts = PostsOf(tpl) /\ post_content = ContentOf(tpl)
  /\ social_accounts = {}
  /\ variants = "live"
  /\ faults = MaxFaults - Min(MaxFaults, MaxCalendarFaults)
  /\ InitLocals

NextCalendar ==
  \/ PreviousMonth
  \/ NextMonth
  \/ \E k \in 1..MaxCalls : LoadPostsReturn(k)

SpecCalendar == InitCalendar /\ [][NextCalendar]_vars

\* ------------------------------------------------------------ properties
IsNormal(e) == "success" \in DOMAIN e
IsError(e) == "error" \in DOMAIN e
Running(i) == pc[i] \notin {"idle", "done"}
BatchIds(i) == { postsToPublish[i][k].id : k \in 1..Len(postsToPublish[i]) }
Events(i, op, p) == SelectSeq(log[i], LAMBDA e : e.op = op /\ e.post = p)
StatusWrites(i, p) == Events(i, "updatePost", p)
LastStatusWrite(i, p) == StatusWrites(i, p)[Len(StatusWrites(i, p))]
PublishedOk(i, p) == \E k \in 1..Len(log[i]) :
  log[i][k].op = "publish" /\ log[i][k].post = p /\ log[i][k].ok
SelectOk(i) == Len(log[i]) > 0 /\ log[i][1].ok
\* the step in which invocation i runs its selection query
SelectStep(i) == pc[i] = "idle" /\ pc'[i] # "idle"
\* the posts matching the due predicate for time t, read off the table
MatchingAt(t) ==
  { p \in DOMAIN posts :
      posts[p].status = "scheduled" /\ posts[p].scheduled_for # None
        /\ The(posts[p].scheduled_for) <= t }

\* C1: every post on the normal path gets as final status published when
\* failureCount = 0 or successCount > 0 and failed when successCount = 0 and
\* failureCount > 0: this is the value of the final update, and the stored
\* status whenever storage applied the update.
C1_FinalStatus ==
  \A i \in Invs : \A k \in 1..Len(results[i]) :
    LET e == results[i][k]
        w == LastStatusWrite(i, e.post_id)
    IN  IsNormal(e) =>
          /\ (e.failed = 0 \/ e.success > 0) =>
                w.value = "published" /\ (w.ok => posts[e.post_id].status = "published")
          /\ (e.success = 0 /\ e.failed > 0) =>
                w.value = "failed" /\ (w.ok => posts[e.post_id].status = "failed")

C1_Witness ==
  \E i \in Invs : \E k \in 1..Len(results[i]) :
    LET e == results[i][k]
    IN  /\ IsNormal(e) /\ e.success > 0 /\ e.failed > 0
        /\ posts[e.post_id].status = "published"

\* C2 as stated: every selected post without a successful content row, whatever
\* its number of content rows, gets failed as final status.
C2_Original ==
  \A i \in Invs : \A k \in 1..Len(results[i]) :
    LET p == results[i][k].post_id
        w == LastStatusWrite(i, p)
    IN  (~PublishedOk(i, p) /\ w.ok) => posts[p].status = "failed"

\* C2 amended: every selected post with at least one content row and without a
\* successful content row gets failed as final status: failed is the value of
\* the last status update of the pass, and the stored status whenever storage
\* applied that update.
C2_AllFail ==
  \A i \in Invs : \A k \in 1..Len(results[i]) :
    LET p == results[i][k].post_id
        w == LastStatusWrite(i, p)
    IN  (Len(postsToPublish[i][k].post_content) >= 1 /\ ~PublishedOk(i, p)) =>
          /\ w.value = "failed"
          /\ w.ok => posts[p].status = "failed"

C2_Witness ==
  \E i \in Invs : \E k \in 1..Len(results[i]) :
    LET e == results[i][k]
    IN  /\ IsNormal(e) /\ e.success = 0 /\ e.failed = 2
        /\ Len(postsToPublish[i][k].post_content) = 2
        /\ posts[e.post_id].status = "failed"

\* C3: the selection returns min(N, 10) posts, N the number of posts with
\* status = scheduled and scheduled_for <= now when the query runs, and a 200
\* response reports that number as processed.
C3_Processed ==
  [][\A i \in Invs :
       /\ (SelectStep(i) /\ log'[i][1].ok) =>
            Len(postsToPublish'[i]) = Min(Cardinality(MatchingAt(clock)), 10)
       /\ \A r \in response'[i] :
            r.status = 200 => r.processed = Len(postsToPublish'[i])]_vars

C3_Witness ==
  \E i \in Invs : \E r \in response[i] :
    /\ r.status = 200 /\ r.processed = 10
    /\ \E p \in DOMAIN posts : p \notin BatchIds(i) /\ p \in MatchingAt(now[i])

\* C4: an invocation selects only posts that had status = scheduled and
\* scheduled_for <= now at its selection query, and it writes the status and
\* the content rows of, and lists in results, only posts it selected; a post
\* scheduled later than now is not among them.
C4_OnlyDue ==
  [][/\ \A i \in Invs : SelectStep(i) => BatchIds(i)' \subseteq MatchingAt(clock)
     /\ \A p \in DOMAIN posts : posts'[p] # posts[p] =>
          \E i \in Invs : Running(i) /\ p \in BatchIds(i)
     /\ \A r \in DOMAIN post_content : post_content'[r] # post_content[r] =>
          \E i \in Invs : Running(i) /\ post_content[r].post_id \in BatchIds(i)
     /\ \A i \in Invs :
          /\ \A k \in 1..Len(results'[i]) : results'[i][k].post_id \in BatchIds(i)'
          /\ \A p \in BatchIds(i)' : \A sf \in posts'[p].scheduled_for : sf <= now'[i]
          /\ \A p \in BatchIds(i)' : posts'[p].scheduled_for # None]_vars

C4_Witness ==
  \E i \in Invs : \E r \in response[i] : \E p \in DOMAIN posts :
    /\ r.status = 200 /\ r.processed >= 1
    /\ posts[p].scheduled_for # None /\ The(posts[p].scheduled_for) > now[i]
    /\ posts[p].status = "scheduled"

\* C5: when no post matches the due predicate at the selection query, the
\* invocation answers 200 with processed = 0 and no results in that same step
\* and writes nothing: posts, content rows and accounts are unchanged.
C5_EmptyBatch ==
  [][\A i \in Invs :
       /\ (SelectStep(i) /\ log'[i][1].ok /\ MatchingAt(clock) = {}) =>
            /\ response'[i] = Some([status |-> 200, message |-> MsgNone, processed |-> 0])
            /\ pc'[i] = "done"
            /\ UNCHANGED storeVars
       /\ \A r \in response'[i] : (r.status = 200 /\ r.processed = 0) =>
            /\ "results" \notin DOMAIN r
            /\ Len(log'[i]) = 1 /\ log'[i][1].op = "selectPosts"]_vars

C5_Witness ==
  \E i \in Invs : \E r \in response[i] :
    /\ r.status = 200 /\ r.processed = 0
    /\ \E p \in DOMAIN posts : posts[p].status = "scheduled"

\* the owner's active accounts for the platform of the row the loop is at, read off the table
OwnerAccounts(i) ==
  { a \in social_accounts :
      /\ a.user_id = posts[Post(i).id].user_id
      /\ a.is_active
      /\ a.platform = Content(i).platform }
\* the step in which invocation i visits a row for which the accounts it
\* fetched hold no account of the row's platform
NoAccountStep(i) ==
  /\ pc[i] = "content"
  /\ log'[i] # log[i]
  /\ (socialAccounts[i] = None \/ OwnerAccounts(i) = {})
\* the publish calls made for content row r, as <<invocation, position in its log>>
PublishCalls(r) ==
  UNION { { <<i, k>> : k \in { j \in 1..Len(log[i]) :
                                 log[i][j].op = "publish" /\ log[i][j].row = r } } : i \in Invs }

\* C6: a visited row whose platform has no account among the owner's active
\* accounts fetched for the post does not reach the publish operation; the only
\* call made for it is the update of error_message to the not-connected
\* literal, published_url and published_at keep their values, and the failure
\* counter grows by exactly one.
C6_NoAccount ==
  [][\A i \in Invs : NoAccountStep(i) =>
       LET r == Content(i).id
           e == log'[i][Len(log'[i])]
       IN  /\ Len(log'[i]) = Len(log[i]) + 1
           /\ e.op = "updateContentError" /\ e.row = r /\ e.value = NotConnected
           /\ post_content'[r].error_message =
                (IF e.ok THEN Some(NotConnected) ELSE post_content[r].error_message)
           /\ post_content'[r].published_url = post_content[r].published_url
           /\ post_content'[r].published_at = post_content[r].published_at
           /\ \A q \in DOMAIN post_content : q # r => post_content'[q] = post_content[q]
           /\ failureCount'[i] = failureCount[i] + 1
           /\ successCount'[i] = successCount[i]]_vars

C6_Witness ==
  \E i \in Invs : \E k \in 1..Len(log[i]) :
    /\ log[i][k].op = "updateContentError" /\ log[i][k].value = NotConnected /\ log[i][k].ok
    /\ post_content[log[i][k].row].error_message = Some(NotConnected)
    /\ \E a \in social_accounts : a.platform = log[i][k].row[2] /\ a.is_active
    /\ PublishCalls(log[i][k].row) = {}

\* C7 as stated: every status change made by the dispatcher is scheduled ->
\* publishing or publishing -> published / failed, and only scheduled posts
\* are picked up.
C7_Original ==
  [][/\ \A p \in DOMAIN posts : posts'[p].status # posts[p].status =>
          \/ posts[p].status = "scheduled" /\ posts'[p].status = "publishing"
          \/ posts[p].status = "publishing" /\ posts'[p].status \in {"published", "failed"}
     /\ \A i \in Invs : SelectStep(i) =>
          \A p \in BatchIds(i)' : posts[p].status = "scheduled"]_vars

\* C7 amended: every status change made by the dispatcher is scheduled ->
\* publishing, publishing -> published / failed, or scheduled -> failed written
\* by the per-post catch after the update to publishing returned an error;
\* and only scheduled posts are picked up.
C7_Lifecycle ==
  [][/\ \A p \in DOMAIN posts : posts'[p].status # posts[p].status =>
          \/ posts[p].status = "scheduled" /\ posts'[p].status = "publishing"
          \/ posts[p].status = "publishing" /\ posts'[p].status \in {"published", "failed"}
          \/ /\ posts[p].status = "scheduled" /\ posts'[p].status = "failed"
             /\ \E i \in Invs :
                  /\ pc[i] = "forceFailed" /\ Post(i).id = p
                  /\ LET w == LastStatusWrite(i, p) IN w.value = "publishing" /\ ~w.ok
     /\ \A i \in Invs : SelectStep(i) =>
          \A p \in BatchIds(i)' : posts[p].status = "scheduled"]_vars

C7_Witness ==
  \E i \in Invs : \E p \in DOMAIN posts :
    /\ posts[p].status = "failed"
    /\ Len(StatusWrites(i, p)) = 2
    /\ ~StatusWrites(i, p)[1].ok /\ StatusWrites(i, p)[1].value = "publishing"
    /\ StatusWrites(i, p)[2].ok /\ StatusWrites(i, p)[2].value = "failed"

\* C8: over a sequence of invocations that do not overlap, the publish
\* operation is invoked at most once for each content row.
C8_PublishOnce ==
  \A r \in DOMAIN post_content : Cardinality(PublishCalls(r)) <= 1

C8_Witness ==
  /\ \A i \in Invs : pc[i] = "done"
  /\ \E r \in DOMAIN post_content : Cardinality(PublishCalls(r)) = 1
  /\ Len(results[NInv]) >= 1

\* C9: an invocation whose selection query succeeded answers 200, and its
\* results hold exactly one entry for each selected post, in the order of the
\* batch, whichever storage calls returned an error; while it runs, the posts
\* before the current one have their entry.
C9_NoAbort ==
  \A i \in Invs : SelectOk(i) =>
    /\ \A k \in 1..Len(results[i]) : results[i][k].post_id = postsToPublish[i][k].id
    /\ Len(results[i]) <= Len(postsToPublish[i])
    /\ Running(i) => Len(results[i]) = pIdx[i] - 1
    /\ \A r \in response[i] :
         /\ r.status = 200
         /\ r.processed = Len(postsToPublish[i])
         /\ Len(results[i]) = r.processed
         /\ r.processed > 0 => r.results = results[i]

C9_Witness ==
  \E i \in Invs : \E r \in response[i] :
    /\ r.status = 200 /\ r.processed = 2
    /\ IsError(r.results[1]) /\ IsNormal(r.results[2])
    /\ posts[r.results[2].post_id].status \in {"published", "failed"}

\* C10: a publish error is written to the error_message of its row and counted
\* as one failure; the post stays on the normal path: its entry carries the
\* counters, which add up to the number of its content rows, and every one of
\* its rows got its outcome update.
C10_ContentError ==
  \A i \in Invs :
    /\ \A k \in 1..Len(log[i]) : (log[i][k].op = "publish" /\ ~log[i][k].ok) =>
         /\ (pc[i] = "writeFailure" \/ k < Len(log[i]))
         /\ (k < Len(log[i])) =>
              /\ log[i][k + 1].op = "updateContentError"
              /\ log[i][k + 1].row = log[i][k].row
              /\ log[i][k + 1].value = log[i][k].value
    /\ pc[i] = "forceFailed" => Events(i, "publish", Post(i).id) = <<>>
    /\ \A k \in 1..Len(results[i]) :
         LET b == postsToPublish[i][k]
             e == results[i][k]
         IN  Events(i, "publish", b.id) # <<>> =>
               /\ IsNormal(e)
               /\ e.success + e.failed = Len(b.post_content)
               /\ Len(Events(i, "updateContentError", b.id))
                    + Len(Events(i, "updateContentPublished", b.id)) = Len(b.post_content)
               /\ LastStatusWrite(i, b.id).value =
                    (IF e.failed = 0 \/ e.success > 0 THEN "published" ELSE "failed")

C10_Witness ==
  \E i \in Invs : \E k \in 1..Len(results[i]) :
    LET b == postsToPublish[i][k]
        e == results[i][k]
    IN  /\ Len(b.post_content) = 2
        /\ IsNormal(e) /\ e.success = 1 /\ e.failed = 1
        /\ Events(i, "publish", b.id)[1].ok = FALSE
        /\ Events(i, "publish", b.id)[2].ok = TRUE
        /\ post_content[b.post_content[2].id].published_url # None

\* the update to publishing of batch post p returned an error in invocation i
MarkFailed(i, p) == StatusWrites(i, p) # <<>> /\ ~StatusWrites(i, p)[1].ok
ContentWrites(i, p) == Events(i, "updateContentError", p) \o Events(i, "updateContentPublished", p)
ErrorEntryFields == {"post_id", "title", "error"}
NormalEntryFields == {"post_id", "title", "success", "failed"}

\* C11: when the update that marks a post publishing returns an error, the
\* invocation goes to the per-post catch at once: it makes no accounts query,
\* no publish call and no content update for that post.
C11_MarkFailure ==
  \A i \in Invs : \A k \in 1..Len(postsToPublish[i]) :
    LET p == postsToPublish[i][k].id
    IN  MarkFailed(i, p) =>
          /\ Events(i, "selectAccounts", p) = <<>>
          /\ Events(i, "publish", p) = <<>>
          /\ ContentWrites(i, p) = <<>>
          /\ (Running(i) /\ pIdx[i] = k) => pc[i] = "forceFailed"

C11_Witness ==
  \E i \in Invs : \E k \in 1..Len(results[i]) :
    LET b == postsToPublish[i][k]
    IN  /\ MarkFailed(i, b.id) /\ IsError(results[i][k])
        /\ Len(b.post_content) >= 1
        /\ \E a \in social_accounts :
             a.user_id = b.user_id /\ a.is_active /\ a.platform = b.post_content[1].platform
        /\ post_content[b.post_content[1].id] = NewContent(b.id, b.post_content[1].platform)

\* C12: a post on the post-level error path gets failed as status (the value
\* of the update of the catch, and the stored status whenever storage applied
\* it) and an entry with post_id, title and error only; a post on the normal
\* path gets an entry with post_id, title, success and failed only.
C12_Entries ==
  \A i \in Invs : \A k \in 1..Len(results[i]) :
    LET b == postsToPublish[i][k]
        e == results[i][k]
        w == LastStatusWrite(i, b.id)
    IN  /\ e.post_id = b.id /\ e.title = b.title
        /\ MarkFailed(i, b.id) =>
             /\ DOMAIN e = ErrorEntryFields
             /\ w.value = "failed"
             /\ w.ok => posts[b.id].status = "failed"
        /\ ~MarkFailed(i, b.id) => DOMAIN e = NormalEntryFields

C12_Witness ==
  \E i \in Invs : \E r \in response[i] :
    /\ r.status = 200 /\ r.processed = 2
    /\ DOMAIN r.results[1] = NormalEntryFields
    /\ DOMAIN r.results[2] = ErrorEntryFields
    /\ posts[r.results[2].post_id].status = "failed"

\* C13 as stated: when the accounts query returns an error for a post, the post
\* takes the post-level error path: its entry carries the error, and none of
\* its content rows is written as not connected.
C13_Original ==
  \A i \in Invs : \A k \in 1..Len(results[i]) :
    LET b == postsToPublish[i][k]
        q == Events(i, "selectAccounts", b.id)
    IN  (q # <<>> /\ ~q[1].ok) =>
          /\ IsError(results[i][k])
          /\ \A j \in 1..Len(log[i]) :
               ~(log[i][j].op = "updateContentError" /\ log[i][j].post = b.id
                   /\ log[i][j].value = NotConnected)

\* C14: the dispatcher writes nothing but posts.status and the outcome fields
\* of content rows, and only of posts of its batch: accounts, the other post
\* columns and the other content columns keep their values, and no row is
\* inserted or deleted.
C14_Frame ==
  [][/\ social_accounts' = social_accounts
     /\ DOMAIN posts' = DOMAIN posts
     /\ DOMAIN post_content' = DOMAIN post_content
     /\ \A p \in DOMAIN posts :
          /\ posts'[p] = [posts[p] EXCEPT !.status = posts'[p].status]
          /\ posts'[p] # posts[p] => \E i \in Invs : Running(i) /\ Post(i).id = p
     /\ \A r \in DOMAIN post_content :
          /\ post_content'[r] =
               [post_content[r] EXCEPT !.published_url = post_content'[r].published_url,
                                       !.published_at = post_content'[r].published_at,
                                       !.error_message = post_content'[r].error_message]
          /\ post_content'[r] # post_content[r] =>
               \E i \in Invs : Running(i) /\ Post(i).id = post_content[r].post_id]_vars

C14_Witness ==
  \E i \in Invs : \E r \in response[i] : \E p, q \in DOMAIN posts :
    /\ r.status = 200 /\ r.processed = 1 /\ r.results[1].post_id = p
    /\ posts[p].status = "published" /\ posts[q].status = "draft"
    /\ \E c \in DOMAIN post_content :
         post_content[c].post_id = p /\ post_content[c].published_url # None
    /\ social_accounts # {}

\* C15: with the publish variants of the source no publish call succeeds: the
\* dispatcher never changes a published_url or published_at, every entry of
\* the normal path has success = 0, and every processed post with at least one
\* content row gets failed as final status.
C15_StubsFail ==
  [][variants = "stub" =>
       /\ \A r \in DOMAIN post_content :
            /\ post_content'[r].published_url = post_content[r].published_url
            /\ post_content'[r].published_at = post_content[r].published_at
       /\ \A i \in Invs :
            /\ \A j \in 1..Len(log'[i]) :
                 /\ log'[i][j].op # "updateContentPublished"
                 /\ log'[i][j].op = "publish" => ~log'[i][j].ok
            /\ \A k \in 1..Len(results'[i]) :
                 LET b == postsToPublish'[i][k]
                     e == results'[i][k]
                     w == log'[i][CHOOSE j \in 1..Len(log'[i]) :
                            /\ log'[i][j].op = "updatePost" /\ log'[i][j].post = b.id
                            /\ \A h \in (j + 1)..Len(log'[i]) :
                                 ~(log'[i][h].op = "updatePost" /\ log'[i][h].post = b.id)]
                 IN  /\ IsNormal(e) => e.success = 0 /\ e.failed = Len(b.post_content)
                     /\ Len(b.post_content) >= 1 =>
                          /\ w.value = "failed"
                          /\ w.ok => posts'[b.id].status = "failed"]_vars

C15_Witness ==
  /\ variants = "stub"
  /\ \E i \in Invs : \E k \in 1..Len(results[i]) :
       LET b == postsToPublish[i][k]
           e == results[i][k]
       IN  /\ IsNormal(e) /\ e.success = 0 /\ e.failed = 2
           /\ posts[b.id].status = "failed"
           /\ b.post_content[1].platform = "instagram" /\ b.post_content[2].platform = "facebook"
           /\ Len(Events(i, "publish", b.id)) = 2
           /\ \A j \in 1..2 : post_content[b.post_content[j].id].published_url = None

\* C16: when the selection query returns an error, the invocation answers 500
\* with an error string and nothing else, in that same step, and has written
\* nothing.
C16_SelectError ==
  [][\A i \in Invs :
       /\ (SelectStep(i) /\ ~log'[i][1].ok) =>
            /\ \E r \in response'[i] : r.status = 500 /\ DOMAIN r = {"status", "error"}
            /\ pc'[i] = "done"
            /\ UNCHANGED storeVars
       /\ \A r \in response'[i] : r.status = 500 =>
            /\ Len(log'[i]) = 1 /\ log'[i][1].op = "selectPosts" /\ ~log'[i][1].ok
            /\ results'[i] = <<>> /\ postsToPublish'[i] = <<>>]_vars

C16_Witness ==
  \E i \in Invs : \E r \in response[i] :
    /\ r.status = 500
    /\ \E p \in DOMAIN posts : p \in MatchingAt(now[i])

\* the step appends a content update of kind op to the log of invocation i
ContentWriteStep(i, op) ==
  /\ Len(log'[i]) = Len(log[i]) + 1
  /\ log'[i][Len(log'[i])].op = op

LastEvent(i) == log[i][Len(log[i])]

\* C19: when the publish operation of a row returns a URL, the next step of
\* the invocation is the success update of that row with that URL: once
\* storage applies it the row has published_url = the URL, published_at = the
\* time of the write and error_message null, its other columns unchanged;
\* successCount grows by one and failureCount keeps its value.
C19_SuccessWrite ==
  [][\A i \in Invs :
       /\ (pc[i] = "content" /\ pc'[i] = "writeSuccess") =>
            /\ log'[i][Len(log'[i])] =
                 Ev("publish", Post(i).id, Content(i).id, The(pending'[i]).url, TRUE)
            /\ UNCHANGED <<storeVars, successCount, failureCount>>
       /\ (pc[i] = "writeSuccess" /\ pc'[i] # pc[i]) =>
            LET e == log'[i][Len(log'[i])]
                r == Content(i).id
            IN  /\ ContentWriteStep(i, "updateContentPublished")
                /\ LastEvent(i).op = "publish" /\ LastEvent(i).ok /\ LastEvent(i).row = r
                /\ e.row = r /\ e.value = LastEvent(i).value
                /\ e.ok => post_content'[r] =
                     [post_content[r] EXCEPT !.published_url = Some(e.value),
                                             !.published_at = Some(clock),
                                             !.error_message = None]
                /\ ~e.ok => post_content'[r] = post_content[r]
                /\ \A q \in DOMAIN post_content : q # r => post_content'[q] = post_content[q]
                /\ successCount'[i] = successCount[i] + 1
                /\ failureCount'[i] = failureCount[i]
       /\ ContentWriteStep(i, "updateContentPublished") => pc[i] = "writeSuccess"]_vars

C19_Witness ==
  \E i \in Invs : \E j \in 1..Len(log[i]) : \E q \in DOMAIN post_content :
    LET e == log[i][j]
    IN  /\ e.op = "updateContentPublished" /\ e.ok
        /\ post_content[e.row].published_url = Some(e.value)
        /\ post_content[e.row].published_at = Some(now[i])
        /\ post_content[e.row].error_message = None
        /\ post_content[e.row].platform = PlatformOrder[1]
        /\ q # e.row /\ post_content[q].post_id = e.post
        /\ post_content[q].published_at = Some(0)

\* C20: a failed attempt (no account, or the publish operation threw) updates
\* error_message alone, to a non-null message, and leaves published_url and
\* published_at as they were; no step writes the success fields together with
\* a non-null error_message; an invocation issues at most one content update
\* per row and counts each row once, as a success or as a failure.
C20_FailureWrite ==
  [][\A i \in Invs :
       /\ ContentWriteStep(i, "updateContentError") =>
            LET e == log'[i][Len(log'[i])]
                r == Content(i).id
            IN  /\ pc[i] \in {"content", "writeFailure"}
                /\ e.row = r
                /\ e.ok => post_content'[r] = [post_content[r] EXCEPT !.error_message = Some(e.value)]
                /\ ~e.ok => post_content'[r] = post_content[r]
                /\ \A q \in DOMAIN post_content : q # r => post_content'[q] = post_content[q]
                /\ failureCount'[i] = failureCount[i] + 1
                /\ successCount'[i] = successCount[i]
       /\ \A r \in DOMAIN post_content :
            \/ post_content'[r] = post_content[r]
            \/ /\ post_content'[r].error_message # None
               /\ post_content'[r].published_url = post_content[r].published_url
               /\ post_content'[r].published_at = post_content[r].published_at
            \/ /\ post_content'[r].error_message = None
               /\ post_content'[r].published_url # None
               /\ post_content'[r].published_at # None
       /\ \A r \in DOMAIN post_content :
            Cardinality({ j \in 1..Len(log'[i]) :
              log'[i][j].op \in {"updateContentError", "updateContentPublished"}
                /\ log'[i][j].row = r }) <= 1
       /\ \A k \in 1..Len(results'[i]) :
            IsNormal(results'[i][k]) =>
              results'[i][k].success + results'[i][k].failed = Len(postsToPublish'[i][k].post_content)
       /\ (pc[i] \in {"content", "writeSuccess", "writeFailure"} /\ pc'[i] # pc[i]) =>
            successCount'[i] + failureCount'[i] =
              IF pc'[i] \in {"writeSuccess", "writeFailure"} THEN cIdx[i] - 1 ELSE cIdx[i]]_vars

C20_Witness ==
  \E i \in Invs : \E j \in 1..Len(log[i]) :
    LET e == log[i][j]
    IN  /\ e.op = "updateContentError" /\ e.ok
        /\ post_content[e.row].error_message = Some(e.value)
        /\ post_content[e.row].published_url = Some("https://previous")
        /\ post_content[e.row].published_at = Some(0)

\* C17: in the system of the authoring form and the dispatcher, started from
\* an empty posts table, a post whose status is scheduled, publishing,
\* published or failed has a non-null scheduled_for.
C17_ScheduledFor ==
  \A p \in DOMAIN posts :
    posts[p].status \in {"scheduled", "publishing", "published", "failed"} =>
      posts[p].scheduled_for # None

C17_Witness ==
  \E p \in DOMAIN posts : \E i \in Invs :
    /\ posts[p].status = "published"
    /\ posts[p].scheduled_for = Some(ToInstant(0, 1))
    /\ posts[p].user_id = FormUser
    /\ save.alert = Some(AlertScheduled)
    /\ Len(StatusWrites(i, p)) = 2

\* C18: nothing makes an invocation leave a post to another one.  The update
\* to publishing is by id alone: when storage applies it the post becomes
\* publishing whatever its status was and the invocation goes on to the
\* accounts query; only a storage error sends it to the catch.  An invocation
\* calls the publish operation at most once for a row, so a row is published
\* at most once per invocation that selected its post.
C18_Unguarded ==
  [][\A i \in Invs :
       /\ (pc[i] = "markPublishing" /\ pc'[i] # pc[i]) =>
            LET e == log'[i][Len(log'[i])]
            IN  /\ e.op = "updatePost" /\ e.post = Post(i).id /\ e.value = "publishing"
                /\ e.ok => /\ pc'[i] = "fetchAccounts"
                           /\ posts'[Post(i).id].status = "publishing"
                /\ ~e.ok => pc'[i] = "forceFailed" /\ posts' = posts
       /\ \A r \in DOMAIN post_content :
            Cardinality({ k \in 1..Len(log'[i]) :
              log'[i][k].op = "publish" /\ log'[i][k].row = r }) <= 1]_vars

\* two invocations in flight on the same post: both have been answered ok by
\* the update to publishing and both have called the publish operation for
\* the same content row
C18_Witness ==
  \E i, j \in Invs : \E r \in DOMAIN post_content :
    /\ i # j /\ Running(i) /\ Running(j)
    /\ Post(i).id = Post(j).id
    /\ \A h \in {i, j} :
         /\ StatusWrites(h, Post(h).id) # <<>> /\ StatusWrites(h, Post(h).id)[1].ok
         /\ \E k \in 1..Len(log[h]) : log[h][k].op = "publish" /\ log[h][k].row = r

\* the content updates invocation i has issued for row r
RowWrites(i, r) ==
  { k \in 1..Len(log[i]) :
      log[i][k].op \in {"updateContentError", "updateContentPublished"} /\ log[i][k].row = r }

\* C21: on the normal path every content row returned with the post is
\* visited exactly once: the entry of the post has success + failed = the
\* number of rows, every row has exactly one content update of the
\* invocation, and the updates were issued in the order of the rows.  While
\* the post is in the loop the rows before the current one have their update
\* and the rows after it have none.
C21_EachRowOnce ==
  \A i \in Invs :
    /\ \A k \in 1..Len(results[i]) :
         LET b == postsToPublish[i][k]
             e == results[i][k]
         IN  IsNormal(e) =>
               /\ e.success + e.failed = Len(b.post_content)
               /\ \A j \in 1..Len(b.post_content) :
                    Cardinality(RowWrites(i, b.post_content[j].id)) = 1
               /\ \A j1, j2 \in 1..Len(b.post_content) :
                    j1 < j2 => \A k1 \in RowWrites(i, b.post_content[j1].id) :
                                 \A k2 \in RowWrites(i, b.post_content[j2].id) : k1 < k2
               /\ Len(ContentWrites(i, b.id)) = Len(b.post_content)
    /\ pc[i] \in {"content", "writeSuccess", "writeFailure"} =>
         /\ successCount[i] + failureCount[i] = cIdx[i] - 1
         /\ \A j \in 1..Len(Post(i).post_content) :
              Cardinality(RowWrites(i, Post(i).post_content[j].id)) = IF j < cIdx[i] THEN 1 ELSE 0

C21_Witness ==
  \E i \in Invs : \E k \in 1..Len(results[i]) :
    LET b == postsToPublish[i][k]
        e == results[i][k]
    IN  /\ IsNormal(e) /\ e.success = 1 /\ e.failed = 1
        /\ Len(b.post_content) = 2
        /\ \A j \in 1..2 : Cardinality(RowWrites(i, b.post_content[j].id)) = 1

\* the posts of the batch for which invocation i has issued the update to
\* publishing and not yet the final or forced update
OpenPosts(i) == { p \in BatchIds(i) : Len(StatusWrites(i, p)) = 1 }

\* the index in the batch of invocation i of the post an event is about
BatchIndex(i, p) == CHOOSE k \in 1..Len(postsToPublish[i]) : postsToPublish[i][k].id = p

\* C22: an invocation works on one post and one content row at a time.  At
\* most one post of its batch has its update to publishing issued and its
\* final (or forced failed) update not yet issued, and it is the post of the
\* current loop iteration; no post gets more than these two status updates;
\* the calls of the invocation are ordered by post, in batch order; and a
\* publish call is immediately followed by the content update of the same
\* row, before any call for another row.
C22_Sequential ==
  \A i \in Invs :
    /\ Cardinality(OpenPosts(i)) <= 1
    /\ \A p \in OpenPosts(i) : Running(i) /\ Post(i).id = p /\ pc[i] # "markPublishing"
    /\ \A p \in BatchIds(i) :
         /\ Len(StatusWrites(i, p)) <= 2
         /\ StatusWrites(i, p) # <<>> => StatusWrites(i, p)[1].value = "publishing"
         /\ Len(StatusWrites(i, p)) = 2 => StatusWrites(i, p)[2].value \in {"published", "failed"}
    /\ \A k \in 1..Len(results[i]) : Len(StatusWrites(i, postsToPublish[i][k].id)) = 2
    /\ \A a, b \in 2..Len(log[i]) :
         a < b => BatchIndex(i, log[i][a].post) <= BatchIndex(i, log[i][b].post)
    /\ \A a \in 1..Len(log[i]) :
         log[i][a].op = "publish" =>
           IF a = Len(log[i])
           THEN pc[i] = (IF log[i][a].ok THEN "writeSuccess" ELSE "writeFailure")
           ELSE /\ log[i][a + 1].row = log[i][a].row
                /\ log[i][a + 1].op =
                     (IF log[i][a].ok THEN "updateContentPublished" ELSE "updateContentError")

C22_Witness ==
  \E i \in Invs :
    /\ Len(postsToPublish[i]) = 2 /\ pIdx[i] = 2
    /\ pc[i] \in {"writeSuccess", "writeFailure"} /\ cIdx[i] = 2
    /\ OpenPosts(i) = {postsToPublish[i][2].id}
    /\ Len(Events(i, "publish", postsToPublish[i][1].id)) = 2
    /\ Len(Events(i, "publish", postsToPublish[i][2].id)) = 2

\* the active accounts of the owner of the current post of invocation i, as
\* storage holds them now
StoredActive(i) ==
  { a \in social_accounts : a.user_id = posts[Post(i).id].user_id /\ a.is_active }

\* C23: the accounts an invocation uses for a post are those storage held
\* when the accounts query of that post was answered: the query of every post
\* reads storage as it is then, whatever an earlier post of the run read; no
\* other step changes the set the invocation holds, so a change of is_active
\* made after the query is not seen by the rows of that post; and the branch
\* taken for a row (not connected, or publish) is decided by that set.
C23_FreshPerPost ==
  [][\A i \in Invs :
       /\ (pc[i] = "fetchAccounts" /\ pc'[i] # pc[i]) =>
            LET e == log'[i][Len(log'[i])]
            IN  /\ e.op = "selectAccounts" /\ e.post = Post(i).id
                /\ e.ok => socialAccounts'[i] = Some(StoredActive(i))
                /\ ~e.ok => socialAccounts'[i] = None
       /\ pc[i] # "fetchAccounts" => socialAccounts'[i] = socialAccounts[i]
       /\ (pc[i] = "content" /\ pc'[i] = "content" /\ cIdx'[i] = cIdx[i]) =>
            UNCHANGED <<log, post_content>>
       /\ (pc[i] = "content" /\ log'[i] # log[i]) =>
            LET e == log'[i][Len(log'[i])]
                held == IF socialAccounts[i] = None THEN {} ELSE The(socialAccounts[i])
            IN  IF \E a \in held : a.platform = Content(i).platform
                THEN e.op = "publish" /\ e.row = Content(i).id
                ELSE e = Ev("updateContentError", Post(i).id, Content(i).id, NotConnected, e.ok)]_vars

\* the second post of a run is at its facebook row: the first post found
\* facebook not connected, the query of the second post saw it active, and it
\* has been switched off again since that query
C23_Witness ==
  \E i \in Invs :
    /\ pIdx[i] = 2 /\ pc[i] = "content" /\ Content(i).platform = "facebook"
    /\ socialAccounts[i] # None
    /\ \E k \in 1..Len(log[i]) :
         log[i][k] = Ev("selectAccounts", postsToPublish[i][1].id, NoRow, "", TRUE)
    /\ \E k \in 1..Len(log[i]) :
         log[i][k] = Ev("updateContentError", postsToPublish[i][1].id,
                        RowId(postsToPublish[i][1].id, "facebook"), NotConnected, TRUE)
    /\ Account("u1", "facebook", TRUE) \in The(socialAccounts[i])
    /\ Account("u1", "facebook", FALSE) \in social_accounts

\* invocation i has returned its response
Responded(i) ==
  /\ pc[i] = "done"
  /\ \E r \in response[i] :
       \/ r.status = 500
       \/ r.status = 200 /\ r.processed <= BatchLimit /\ Len(results[i]) \in {0, r.processed}

\* invocation i is awaiting the publish operation of the current row
AwaitingPublish(i) ==
  pc[i] = "content" /\ FindAccount(socialAccounts[i], Content(i).platform) # {}

\* C24: when every awaited call returns, a started invocation eventually
\* returns a response, 500 or 200 with at most 10 posts processed.  While it
\* awaits the publish operation of a row the invocation does nothing else:
\* its next step is the return of that call, so a call that never returns
\* leaves the later rows and posts unprocessed and the response unproduced.
C24_Terminates ==
  /\ \A i \in Invs : Running(i) ~> Responded(i)
  /\ [][\A i \in Invs :
          (AwaitingPublish(i) /\ <<pc[i], pIdx[i], cIdx[i], results[i], response[i], log[i]>>'
                                   # <<pc[i], pIdx[i], cIdx[i], results[i], response[i], log[i]>>) =>
            /\ log'[i][Len(log'[i])].op = "publish"
            /\ log'[i][Len(log'[i])].row = Content(i).id
            /\ Len(log'[i]) = Len(log[i]) + 1
            /\ pc'[i] \in {"writeSuccess", "writeFailure"}
            /\ UNCHANGED <<pIdx, cIdx, results, response, storeVars>>]_vars

C24_Witness ==
  \E i \in Invs : \E r \in response[i] :
    /\ r.status = 200 /\ r.processed = BatchLimit /\ Len(r.results) = BatchLimit
    /\ MatchingAt(now[i]) \ BatchIds(i) # {}
    /\ \E k \in 1..Len(log[i]) : log[i][k].op = "publish"

\* C26 as stated: when an invocation has returned its 200 summary, every post
\* it selected has status published or failed in storage.
C26_Original ==
  \A i \in Invs : \A r \in response[i] :
    r.status = 200 =>
      \A p \in BatchIds(i) : posts[p].status \in {"published", "failed"}

\* the platforms of the entries of a platformContent list, and whether two
\* entries share a platform
PlatformsIn(content) == { content[k].platform : k \in 1..Len(content) }
HasDuplicate(content) ==
  \E j, k \in 1..Len(content) : j # k /\ content[j].platform = content[k].platform

\* C25 as stated: whenever the form is at rest, platformContent holds exactly
\* one entry for each platform of selectedPlatforms and no other, and the list
\* a save closes over never holds two entries of one platform.
C25_Original ==
  /\ save.pc = "idle" =>
       /\ PlatformsIn(form.platformContent) =
            { form.selectedPlatforms[k] : k \in 1..Len(form.selectedPlatforms) }
       /\ ~HasDuplicate(form.platformContent)
  /\ ~HasDuplicate(save.platformContent)

FinalStatuses == {"published", "failed"}

\* C27 as stated: once a post has a final status, no step changes its status,
\* also when invocations overlap.
C27_Original ==
  [][\A p \in DOMAIN posts :
       posts[p].status \in FinalStatuses => posts'[p].status = posts[p].status]_vars

\* C27 amended: an invocation selects only posts that are scheduled, so an
\* invocation that starts after a post got its final status never writes to
\* it.  The final status of a post changes only by the update to publishing,
\* the final update or the forced failed update of an invocation that is in
\* flight on the post, having selected it before another invocation wrote
\* that final status.
C27_OnlyOverlapping ==
  [][/\ \A i \in Invs : SelectStep(i) =>
          \A p \in BatchIds(i)' : posts[p].status \notin FinalStatuses
     /\ \A p \in DOMAIN posts :
          (posts[p].status \in FinalStatuses /\ posts'[p].status # posts[p].status) =>
            \E i \in Invs :
              /\ Running(i) /\ Post(i).id = p
              /\ pc[i] \in {"markPublishing", "finalStatus", "forceFailed"}
              /\ log'[i] # log[i]
              /\ \E j \in Invs : j # i /\ StatusWrites(j, p) # <<>>
                   /\ LastStatusWrite(j, p).ok /\ LastStatusWrite(j, p).value = posts[p].status]_vars

\* the published status one invocation wrote has been overwritten with
\* publishing by another invocation
C27_Witness ==
  \E i, j \in Invs : \E p \in DOMAIN posts :
    /\ i # j
    /\ Len(StatusWrites(j, p)) = 2 /\ StatusWrites(j, p)[2].ok
    /\ StatusWrites(j, p)[2].value = "published"
    /\ Len(StatusWrites(i, p)) = 1 /\ StatusWrites(i, p)[1].ok
    /\ posts[p].status = "publishing"

\* the content rows storage holds for post p
RowsOf(p) == { r \in DOMAIN post_content : post_content[r].post_id = p }

\* C28 as stated: a post a pass has picked up is not in the middle of its
\* save, every content row saved for it was returned with it by the selection
\* and is visited, and no form post that ends with content rows is finalised
\* published by a pass that visited none.
C28_Original ==
  \A i \in Invs : \A k \in 1..Len(postsToPublish[i]) :
    LET b == postsToPublish[i][k]
    IN  /\ ~(save.pc = "insertContent" /\ save.postId = b.id)
        /\ RowsOf(b.id) = { b.post_content[j].id : j \in 1..Len(b.post_content) }
        /\ (k <= Len(results[i]) /\ RowsOf(b.id) # {} /\ IsNormal(results[i][k])) =>
             results[i][k].success + results[i][k].failed > 0

\* C29 as stated: a handleSave that ends in the error path has persisted no
\* post: when the save returns with the error alert, the post row it inserted
\* (if it got that far) is not in storage, so no draft or scheduled post is
\* left with content rows missing.
C29_Original ==
  [][(save.pc # "idle" /\ save'.pc = "idle" /\ save'.alert = Some(AlertError)) =>
       /\ save.postId \notin 1..Len(posts')
       /\ \A p \in 1..Len(posts') :
            posts'[p].status \in {"draft", "scheduled"} =>
              \A k \in 1..Len(save.platformContent) :
                RowId(p, save.platformContent[k].platform) \in DOMAIN post_content']_vars

\* C30 as stated: once no loadPosts call of the calendar is in flight, posts
\* holds the posts of the month on display and loading is false, whatever the
\* order in which the calls returned.  Read in the claim's favour: only the
\* behaviours in which every query returned its data.
NoQueryFailed == faults = MaxFaults - Min(MaxFaults, MaxCalendarFaults)

C30_Original ==
  (calendar.calls = <<>> /\ NoQueryFailed) =>
    /\ calendar.loading = FALSE
    /\ calendar.posts = MonthPosts(calendar.currentDate)
====
